---- MODULE Spec2Model ----
(***************************************************************************)
(* Model of the contract-analysis server action, analyzeContractAction     *)
(* (src/app/actions.ts).  One invocation is a state machine whose steps    *)
(* are the stretches of code between its await points.  Strings are        *)
(* sequences of one-character strings, so that includes, startsWith, the   *)
(* two regular-expression matches, the fence-stripping replace and         *)
(* JSON.parse are computed character by character.                         *)
(*                                                                         *)
(* The module also models the ContractAnalyzer component                   *)
(* (src/components/contract-analyzer.tsx) that calls the action: its       *)
(* state hooks and its event handlers, with the invocation above as the    *)
(* call that handleAnalyze awaits.                                         *)
(***************************************************************************)
EXTENDS Integers, Sequences, FiniteSets, TLC

\* The invocation of the server action.
VARIABLES pc, formData, requests, response, thrown, completion

\* The component: the state hooks file (uiFile), preview, isAnalyzing and
\* results; the file readers whose onload has not run yet (reading); the
\* description of the last toast shown (toast); and analyzed, a history
\* variable naming the file whose analysis results holds.
VARIABLES uiFile, preview, isAnalyzing, results, reading, toast, analyzed

vars == <<pc, formData, requests, response, thrown, completion>>

uiVars == <<uiFile, preview, isAnalyzing, results, reading, toast, analyzed>>

allVars == <<vars, uiVars>>

(***************************************************************************)
(* Bounds of the model.                                                    *)
(***************************************************************************)
\* File sizes are drawn from MaxFileSize - SizeSlack .. MaxFileSize + SizeSlack.
SizeSlack == 1

\* The prose around the payload of a response text is at most MaxProseFrags fragments.
MaxProseFrags == 2

\* An external error message is a concatenation of at most MaxMsgFrags fragments.
MaxMsgFrags == 3

\* The user of the component picks among MaxUiFiles files of each kind.
MaxUiFiles == 2

(***************************************************************************)
(* String helpers (JavaScript String methods used by the action).          *)
(***************************************************************************)
\* String.prototype.startsWith
StartsWith(s, p) ==
    /\ Len(p) <= Len(s)
    /\ SubSeq(s, 1, Len(p)) = p

\* Whether sub occurs in s at (1-based) position i.
OccursAt(s, sub, i) ==
    /\ i >= 1
    /\ i + Len(sub) - 1 <= Len(s)
    /\ SubSeq(s, i, i + Len(sub) - 1) = sub

\* String.prototype.includes
Includes(s, sub) ==
    \E i \in 1..(Len(s) + 1) : OccursAt(s, sub, i)

\* Concatenation of a sequence of strings.
RECURSIVE Concat(_)
Concat(ss) ==
    IF ss = <<>> THEN <<>> ELSE Head(ss) \o Concat(Tail(ss))

\* All sequences of at most n elements of S.
RECURSIVE SeqsUpTo(_, _)
SeqsUpTo(S, n) ==
    IF n = 0 THEN {<<>>}
    ELSE LET shorter == SeqsUpTo(S, n - 1)
         IN  shorter \cup {Append(q, e) : q \in shorter, e \in S}

(***************************************************************************)
(* Program constants.                                                      *)
(***************************************************************************)
\* 10 * 1024 * 1024
MaxFileSize == 10 * 1024 * 1024

\* "image/"
ImagePrefix == <<"i", "m", "a", "g", "e", "/">>

\* "application/pdf"
PdfType == <<"a", "p", "p", "l", "i", "c", "a", "t", "i", "o", "n", "/", "p", "d", "f">>

\* "No file provided"
MsgNoFile == <<"N", "o", " ", "f", "i", "l", "e", " ", "p", "r", "o", "v", "i", "d", "e", "d">>

\* "File size exceeds 10MB limit"
MsgTooLarge == <<"F", "i", "l", "e", " ", "s", "i", "z", "e", " ", "e", "x", "c", "e", "e", "d", "s", " ", "1", "0", "M", "B", " ", "l", "i", "m", "i", "t">>

\* "Only image and PDF files are supported"
MsgBadType == <<"O", "n", "l", "y", " ", "i", "m", "a", "g", "e", " ", "a", "n", "d", " ", "P", "D", "F", " ", "f", "i", "l", "e", "s", " ", "a", "r", "e", " ", "s", "u", "p", "p", "o", "r", "t", "e", "d">>

\* "Failed to parse the AI response. Please try again."
MsgParseInner == <<"F", "a", "i", "l", "e", "d", " ", "t", "o", " ", "p", "a", "r", "s", "e", " ", "t", "h", "e", " ", "A", "I", " ", "r", "e", "s", "p", "o", "n", "s", "e", ".", " ", "P", "l", "e", "a", "s", "e", " ", "t", "r", "y", " ", "a", "g", "a", "i", "n", ".">>

\* "The AI model is being updated. Please try again in a few moments."
MsgUpdating == <<"T", "h", "e", " ", "A", "I", " ", "m", "o", "d", "e", "l", " ", "i", "s", " ", "b", "e", "i", "n", "g", " ", "u", "p", "d", "a", "t", "e", "d", ".", " ", "P", "l", "e", "a", "s", "e", " ", "t", "r", "y", " ", "a", "g", "a", "i", "n", " ", "i", "n", " ", "a", " ", "f", "e", "w", " ", "m", "o", "m", "e", "n", "t", "s", ".">>

\* "Too many requests. Please try again in a few minutes."
MsgThrottled == <<"T", "o", "o", " ", "m", "a", "n", "y", " ", "r", "e", "q", "u", "e", "s", "t", "s", ".", " ", "P", "l", "e", "a", "s", "e", " ", "t", "r", "y", " ", "a", "g", "a", "i", "n", " ", "i", "n", " ", "a", " ", "f", "e", "w", " ", "m", "i", "n", "u", "t", "e", "s", ".">>

\* "Unable to analyze the contract. Please try a clearer image or a different file."
MsgUnable == <<"U", "n", "a", "b", "l", "e", " ", "t", "o", " ", "a", "n", "a", "l", "y", "z", "e", " ", "t", "h", "e", " ", "c", "o", "n", "t", "r", "a", "c", "t", ".", " ", "P", "l", "e", "a", "s", "e", " ", "t", "r", "y", " ", "a", " ", "c", "l", "e", "a", "r", "e", "r", " ", "i", "m", "a", "g", "e", " ", "o", "r", " ", "a", " ", "d", "i", "f", "f", "e", "r", "e", "n", "t", " ", "f", "i", "l", "e", ".">>

\* "An unknown error occurred while analyzing the contract."
MsgUnknown == <<"A", "n", " ", "u", "n", "k", "n", "o", "w", "n", " ", "e", "r", "r", "o", "r", " ", "o", "c", "c", "u", "r", "r", "e", "d", " ", "w", "h", "i", "l", "e", " ", "a", "n", "a", "l", "y", "z", "i", "n", "g", " ", "t", "h", "e", " ", "c", "o", "n", "t", "r", "a", "c", "t", ".">>

\* "deprecated"
KwDeprecated == <<"d", "e", "p", "r", "e", "c", "a", "t", "e", "d">>

\* "rate limit"
KwRateLimit == <<"r", "a", "t", "e", " ", "l", "i", "m", "i", "t">>

\* "parse"
KwParse == <<"p", "a", "r", "s", "e">>

(***************************************************************************)
(* Values: completions, thrown values, outcomes.                           *)
(***************************************************************************)
\* formData.get("file") when the form carries no file entry.
Null == [isNull |-> TRUE]

\* No response text, no thrown value (yet).
NoValue == [none |-> TRUE]

\* A normal completion of the function with value v.
Return(v) == [kind |-> "return", value |-> v]

\* An abrupt completion: value e was thrown.
Throw(e) == [kind |-> "throw", value |-> e]

\* The invocation has not completed yet.
Pending == [kind |-> "pending"]

\* new Error(msg)
NewError(msg) == [isError |-> TRUE, message |-> msg]

\* A thrown value that is not an Error (a string, a plain object); text is
\* what it carries.
NonError(text) == [isError |-> FALSE, message |-> text]

\* { success: false, error: msg }
Failure(msg) == [success |-> FALSE, error |-> msg]

\* { success: true, data: d }
Success(d) == [success |-> TRUE, data |-> d]

(***************************************************************************)
(* Validation, lines 9-23: the completion of the three checks.             *)
(***************************************************************************)
\* Line 11: !file
PresenceFails(file) == file = Null

\* The size check with its limit off by one byte.
SizeFailsOffByOne(file) == file.size > MaxFileSize + 1

\* The size check made inclusive.
SizeFailsInclusive(file) == file.size >= MaxFileSize

\* Line 16: file.size > 10 * 1024 * 1024
SizeFails(file) == file.size > MaxFileSize

\* The type check with a prefix test in place of the equality.
TypeFailsPdfPrefix(file) ==
    /\ ~StartsWith(file.type, ImagePrefix)
    /\ ~StartsWith(file.type, PdfType)

\* Line 21: !file.type.startsWith("image/") && file.type !== "application/pdf"
TypeFails(file) ==
    /\ ~StartsWith(file.type, ImagePrefix)
    /\ file.type # PdfType

\* The checks with the type check ahead of the size check.
ValidateTypeFirst(file) ==
    IF PresenceFails(file) THEN Throw(NewError(MsgNoFile))
    ELSE IF TypeFails(file) THEN Throw(NewError(MsgBadType))
    ELSE IF SizeFails(file) THEN Throw(NewError(MsgTooLarge))
    ELSE Return(file)

\* Lines 9-23: the first failing check throws; otherwise the file goes on.
Validate(file) ==
    IF PresenceFails(file) THEN Throw(NewError(MsgNoFile))
    ELSE IF SizeFails(file) THEN Throw(NewError(MsgTooLarge))
    ELSE IF TypeFails(file) THEN Throw(NewError(MsgBadType))
    ELSE Return(file)

(***************************************************************************)
(* The catch clause, lines 111-143: the completion of the function when    *)
(* value error was thrown inside the try block.                            *)
(***************************************************************************)
\* The catch clause letting a value that is not an Error go on to the caller.
CatchClauseRethrow(error) ==
    IF error.isError
    THEN IF Includes(error.message, KwDeprecated) THEN Return(Failure(MsgUpdating))
         ELSE IF Includes(error.message, KwRateLimit) THEN Return(Failure(MsgThrottled))
         ELSE IF Includes(error.message, KwParse) THEN Return(Failure(MsgUnable))
         ELSE Return(Failure(error.message))
    ELSE Throw(error)

\* The catch clause testing "parse" ahead of "rate limit".
CatchClauseParseFirst(error) ==
    IF error.isError
    THEN IF Includes(error.message, KwDeprecated) THEN Return(Failure(MsgUpdating))
         ELSE IF Includes(error.message, KwParse) THEN Return(Failure(MsgUnable))
         ELSE IF Includes(error.message, KwRateLimit) THEN Return(Failure(MsgThrottled))
         ELSE Return(Failure(error.message))
    ELSE Return(Failure(MsgUnknown))

\* The catch clause testing "rate limit" ahead of "deprecated".
CatchClauseRateFirst(error) ==
    IF error.isError
    THEN IF Includes(error.message, KwRateLimit) THEN Return(Failure(MsgThrottled))
         ELSE IF Includes(error.message, KwDeprecated) THEN Return(Failure(MsgUpdating))
         ELSE IF Includes(error.message, KwParse) THEN Return(Failure(MsgUnable))
         ELSE Return(Failure(error.message))
    ELSE Return(Failure(MsgUnknown))

\* The catch clause answering a value that is not an Error as a parse failure.
CatchClauseUnknownAsParse(error) ==
    IF error.isError
    THEN IF Includes(error.message, KwDeprecated) THEN Return(Failure(MsgUpdating))
         ELSE IF Includes(error.message, KwRateLimit) THEN Return(Failure(MsgThrottled))
         ELSE IF Includes(error.message, KwParse) THEN Return(Failure(MsgUnable))
         ELSE Return(Failure(error.message))
    ELSE Return(Failure(MsgUnable))

CatchClause(error) ==
    IF error.isError
    THEN IF Includes(error.message, KwDeprecated) THEN Return(Failure(MsgUpdating))
         ELSE IF Includes(error.message, KwRateLimit) THEN Return(Failure(MsgThrottled))
         ELSE IF Includes(error.message, KwParse) THEN Return(Failure(MsgUnable))
         ELSE Return(Failure(error.message))
    ELSE Return(Failure(MsgUnknown))

\* try { body } catch (error) { ... }: the completion of the function given
\* the completion of the try block.
TryCatch(body) ==
    IF body.kind = "throw" THEN CatchClause(body.value) ELSE body

(***************************************************************************)
(* Extraction of the candidate JSON string, lines 102-103.                 *)
(***************************************************************************)
\* The backtick character (a TLA+ string cannot hold one).
Backtick == "<backtick>"

\* "```json"
FenceOpen == <<Backtick, Backtick, Backtick, "j", "s", "o", "n">>

\* "```"
Fence == <<Backtick, Backtick, Backtick>>

\* A regular-expression match: found, and the matched text match[0].
NoMatch == [found |-> FALSE, text |-> <<>>]

Matched(t) == [found |-> TRUE, text |-> t]

\* The positions >= from at which sub occurs in s.
Occurrences(s, sub, from) ==
    {i \in from..Len(s) : OccursAt(s, sub, i)}

Min(S) == CHOOSE m \in S : \A n \in S : m <= n

Max(S) == CHOOSE m \in S : \A n \in S : m >= n

\* text.match(/```json\s*([\s\S]*?)\s*```/): the leftmost "```json" that is
\* followed, after its seven characters, by a "```"; the lazy group ends the
\* match at the first such "```".  match[0] spans both fence markers.
MatchFence(text) ==
    LET opens == {i \in Occurrences(text, FenceOpen, 1) :
                     Occurrences(text, Fence, i + Len(FenceOpen)) # {}}
    IN  IF opens = {} THEN NoMatch
        ELSE LET i == Min(opens)
                 j == Min(Occurrences(text, Fence, i + Len(FenceOpen)))
             IN  Matched(SubSeq(text, i, j + Len(Fence) - 1))

\* The brace match made lazy: from the first "{" to the first "}" after it.
MatchBracesLazy(text) ==
    LET opens == Occurrences(text, <<"{">>, 1)
    IN  IF opens = {} THEN NoMatch
        ELSE LET i == Min(opens)
                 closes == Occurrences(text, <<"}">>, i + 1)
             IN  IF closes = {} THEN NoMatch
                 ELSE Matched(SubSeq(text, i, Min(closes)))

\* text.match(/{[\s\S]*}/): from the first "{" to the last "}" after it.
MatchBraces(text) ==
    LET opens == Occurrences(text, <<"{">>, 1)
    IN  IF opens = {} THEN NoMatch
        ELSE LET i == Min(opens)
                 closes == Occurrences(text, <<"}">>, i + 1)
             IN  IF closes = {} THEN NoMatch
                 ELSE Matched(SubSeq(text, i, Max(closes)))

\* s.replace(/```json|```/g, ""), scanning from position i: every
\* non-overlapping marker, left to right, is deleted.  A marker starts where
\* "```" next occurs; it is "```json" when those characters follow.
RECURSIVE StripFencesFrom(_, _)
StripFencesFrom(s, i) ==
    LET marks == Occurrences(s, Fence, i)
    IN  IF marks = {} THEN SubSeq(s, i, Len(s))
        ELSE LET j == Min(marks)
                 k == IF OccursAt(s, FenceOpen, j) THEN j + Len(FenceOpen)
                      ELSE j + Len(Fence)
             IN  SubSeq(s, i, j - 1) \o StripFencesFrom(s, k)

StripFences(s) == StripFencesFrom(s, 1)

\* Line 102: the fenced match, or else the brace match.
JsonMatch(text) ==
    LET fenced == MatchFence(text)
    IN  IF fenced.found THEN fenced ELSE MatchBraces(text)

\* Line 103: the candidate string handed to JSON.parse.
JsonString(text) ==
    LET jsonMatch == JsonMatch(text)
    IN  IF jsonMatch.found THEN StripFences(jsonMatch.text) ELSE text

(***************************************************************************)
(* JSON values and JSON.parse, line 106.  A value is a record with a tag t *)
(* and, by tag, the text s of a string, the integer n of a number, the     *)
(* items of an array or the members (key k, value v) of an object, in      *)
(* insertion order.  The parser is exact on the texts of the model, whose  *)
(* numbers are integers without fraction or exponent and whose strings     *)
(* hold no \u escape.                                                      *)
(***************************************************************************)
JValue(t, s, n, items, members) ==
    [t |-> t, s |-> s, n |-> n, items |-> items, members |-> members]

JNull == JValue("null", <<>>, 0, <<>>, <<>>)

JTrue == JValue("true", <<>>, 0, <<>>, <<>>)

JFalse == JValue("false", <<>>, 0, <<>>, <<>>)

JNum(n) == JValue("number", <<>>, n, <<>>, <<>>)

JStr(s) == JValue("string", s, 0, <<>>, <<>>)

JArr(items) == JValue("array", <<>>, 0, items, <<>>)

JObj(members) == JValue("object", <<>>, 0, <<>>, members)

\* The result of a parsing step: the value v read, and the position i after it.
ParseFail == [ok |-> FALSE, v |-> JNull, i |-> 0]

ParseOk(v, i) == [ok |-> TRUE, v |-> v, i |-> i]

\* The character of s at position i, or an end marker past the end.
At(s, i) == IF i >= 1 /\ i <= Len(s) THEN s[i] ELSE "<eof>"

\* The four JSON whitespace characters.
JsonWhitespace == {" ", "\n", "\t", "\r"}

RECURSIVE SkipWs(_, _)
SkipWs(s, i) ==
    IF At(s, i) \in JsonWhitespace THEN SkipWs(s, i + 1) ELSE i

Digits == {"0", "1", "2", "3", "4", "5", "6", "7", "8", "9"}

DigitVal(c) ==
    CASE c = "0" -> 0 [] c = "1" -> 1 [] c = "2" -> 2 [] c = "3" -> 3
      [] c = "4" -> 4 [] c = "5" -> 5 [] c = "6" -> 6 [] c = "7" -> 7
      [] c = "8" -> 8 [] c = "9" -> 9

RECURSIVE ParseDigits(_, _, _)
ParseDigits(s, i, acc) ==
    IF At(s, i) \in Digits
    THEN ParseDigits(s, i + 1, acc * 10 + DigitVal(At(s, i)))
    ELSE ParseOk(JNum(acc), i)

\* number: -? (0 | [1-9][0-9]*)
ParseNumber(s, i) ==
    LET neg == At(s, i) = "-"
        j == IF neg THEN i + 1 ELSE i
        r == IF At(s, j) = "0" THEN ParseOk(JNum(0), j + 1)
             ELSE IF At(s, j) \in Digits THEN ParseDigits(s, j, 0)
             ELSE ParseFail
    IN  IF r.ok /\ neg THEN ParseOk(JNum(0 - r.v.n), r.i) ELSE r

\* The character an escape sequence \e stands for.
SimpleEscapes == {"\"", "\\", "/", "b", "f", "n", "r", "t"}

Unescape(e) ==
    CASE e = "n" -> "\n" [] e = "t" -> "\t" [] e = "r" -> "\r"
      [] e = "b" -> "<bs>" [] e = "f" -> "<ff>" [] OTHER -> e

\* The characters that cannot stand for themselves inside a string.
StringStops == {"\"", "\\", "\n", "\t", "\r"}

\* The characters of a string after its opening quote, from position i, acc
\* the characters read: plain characters up to the next quote, escape or
\* control character.
RECURSIVE ScanString(_, _, _)
ScanString(s, i, acc) ==
    LET stops == {j \in i..Len(s) : s[j] \in StringStops}
    IN  IF stops = {} THEN ParseFail
        ELSE LET j == Min(stops)
                 read == acc \o SubSeq(s, i, j - 1)
             IN  IF s[j] = "\"" THEN ParseOk(JStr(read), j + 1)
                 ELSE IF s[j] = "\\" /\ At(s, j + 1) \in SimpleEscapes
                 THEN ScanString(s, j + 2, Append(read, Unescape(At(s, j + 1))))
                 ELSE ParseFail

ParseString(s, i) ==
    IF At(s, i) = "\"" THEN ScanString(s, i + 1, <<>>) ELSE ParseFail

\* Setting key k of an object: a repeated key keeps its place and takes the
\* later value.
ObjPut(members, k, v) ==
    IF \E x \in DOMAIN members : members[x].k = k
    THEN [x \in DOMAIN members |->
             IF members[x].k = k THEN [k |-> k, v |-> v] ELSE members[x]]
    ELSE Append(members, [k |-> k, v |-> v])

RECURSIVE ParseValue(_, _), ParseMembers(_, _, _), ParseElements(_, _, _)

\* The members of an object from position i (at a key), acc the members read.
ParseMembers(s, i, acc) ==
    LET key == ParseString(s, i)
        colon == SkipWs(s, key.i)
        val == ParseValue(s, SkipWs(s, colon + 1))
        next == SkipWs(s, val.i)
        read == ObjPut(acc, key.v.s, val.v)
    IN  IF ~key.ok \/ At(s, colon) # ":" THEN ParseFail
        ELSE IF ~val.ok THEN ParseFail
        ELSE IF At(s, next) = "," THEN ParseMembers(s, SkipWs(s, next + 1), read)
        ELSE IF At(s, next) = "}" THEN ParseOk(JObj(read), next + 1)
        ELSE ParseFail

\* The elements of an array from position i (at a value), acc the items read.
ParseElements(s, i, acc) ==
    LET val == ParseValue(s, i)
        next == SkipWs(s, val.i)
        read == Append(acc, val.v)
    IN  IF ~val.ok THEN ParseFail
        ELSE IF At(s, next) = "," THEN ParseElements(s, SkipWs(s, next + 1), read)
        ELSE IF At(s, next) = "]" THEN ParseOk(JArr(read), next + 1)
        ELSE ParseFail

\* The value that starts at position i (not at whitespace).
ParseValue(s, i) ==
    LET c == At(s, i)
        inner == SkipWs(s, i + 1)
    IN  IF c = "{"
        THEN IF At(s, inner) = "}" THEN ParseOk(JObj(<<>>), inner + 1)
             ELSE ParseMembers(s, inner, <<>>)
        ELSE IF c = "["
        THEN IF At(s, inner) = "]" THEN ParseOk(JArr(<<>>), inner + 1)
             ELSE ParseElements(s, inner, <<>>)
        ELSE IF c = "\"" THEN ParseString(s, i)
        ELSE IF c = "-" \/ c \in Digits THEN ParseNumber(s, i)
        ELSE IF OccursAt(s, <<"t", "r", "u", "e">>, i) THEN ParseOk(JTrue, i + 4)
        ELSE IF OccursAt(s, <<"f", "a", "l", "s", "e">>, i) THEN ParseOk(JFalse, i + 5)
        ELSE IF OccursAt(s, <<"n", "u", "l", "l">>, i) THEN ParseOk(JNull, i + 4)
        ELSE ParseFail

\* JSON.parse(s): one value between optional whitespace, or a SyntaxError
\* (ok = FALSE).
JsonParse(s) ==
    LET r == ParseValue(s, SkipWs(s, 1))
    IN  IF r.ok /\ SkipWs(s, r.i) > Len(s) THEN r ELSE ParseFail

(***************************************************************************)
(* Lines 100-110: the inner try block and its catch.                       *)
(***************************************************************************)
\* The inner catch letting the parser's own exception through.
ParseResponseRaw(text) ==
    LET parsed == JsonParse(JsonString(text))
    IN  IF parsed.ok THEN Return(Success(parsed.v))
        ELSE Throw(NewError(<<"U", "n", "e", "x", "p", "e", "c", "t", "e", "d", " ", "t", "o", "k", "e", "n">>))

ParseResponse(text) ==
    LET parsed == JsonParse(JsonString(text))
    IN  IF parsed.ok THEN Return(Success(parsed.v))
        ELSE Throw(NewError(MsgParseInner))

(***************************************************************************)
(* Inputs.                                                                 *)
(***************************************************************************)
FileSizes == (MaxFileSize - SizeSlack)..(MaxFileSize + SizeSlack)

\* Media types: none, the image prefix alone and with a subtype, in another
\* case and inside a longer type, the PDF type alone, extended and inside a
\* longer type, and an unrelated type.
FileTypes ==
    { <<>>,
      ImagePrefix,
      ImagePrefix \o <<"p", "n", "g">>,
      <<"I", "m", "a", "g", "e", "/", "p", "n", "g">>,
      <<"x">> \o ImagePrefix,
      PdfType,
      PdfType \o <<"x">>,
      <<"x">> \o PdfType,
      <<"t", "e", "x", "t", "/", "x">> }

Files == [size : FileSizes, type : FileTypes]

\* What formData.get("file") may yield.
FileEntries == {Null} \cup Files

MsgFrags ==
    {KwDeprecated, KwRateLimit, KwParse, <<"r", "a", "t", "e">>, <<" ", "l", "i", "m", "i", "t">>, <<"x">>}

\* Messages of the errors the external model may throw: concatenations of
\* the fragments, and the text of the unable-to-analyze message itself.
ErrorMessages == {Concat(q) : q \in SeqsUpTo(MsgFrags, MaxMsgFrags)} \cup {MsgUnable}

\* What generateContent, or reading its response, may throw.
ThrownValues == {NewError(m) : m \in ErrorMessages} \cup {NonError(m) : m \in ErrorMessages}

\* JSON.stringify of a string: quoted, with quote, backslash and newline escaped.
RECURSIVE EscapeChars(_)
EscapeChars(s) ==
    IF s = <<>> THEN <<>>
    ELSE LET c == Head(s)
             e == IF c = "\"" THEN <<"\\", "\"">>
                  ELSE IF c = "\\" THEN <<"\\", "\\">>
                  ELSE IF c = "\n" THEN <<"\\", "n">>
                  ELSE <<c>>
         IN  e \o EscapeChars(Tail(s))

Quote(s) == <<"\"">> \o EscapeChars(s) \o <<"\"">>

DigitChar(d) ==
    CASE d = 0 -> "0" [] d = 1 -> "1" [] d = 2 -> "2" [] d = 3 -> "3"
      [] d = 4 -> "4" [] d = 5 -> "5" [] d = 6 -> "6" [] d = 7 -> "7"
      [] d = 8 -> "8" [] d = 9 -> "9"

RECURSIVE NatToString(_)
NatToString(n) ==
    IF n < 10 THEN <<DigitChar(n)>>
    ELSE NatToString(n \div 10) \o <<DigitChar(n % 10)>>

\* JSON.stringify(v), without indentation.
RECURSIVE Stringify(_), StringifyItems(_), StringifyMembers(_)
StringifyItems(items) ==
    IF items = <<>> THEN <<>>
    ELSE Stringify(Head(items))
         \o (IF Len(items) > 1 THEN <<",">> ELSE <<>>)
         \o StringifyItems(Tail(items))

StringifyMembers(members) ==
    IF members = <<>> THEN <<>>
    ELSE Quote(Head(members).k) \o <<":">> \o Stringify(Head(members).v)
         \o (IF Len(members) > 1 THEN <<",">> ELSE <<>>)
         \o StringifyMembers(Tail(members))

Stringify(v) ==
    CASE v.t = "null" -> <<"n", "u", "l", "l">>
      [] v.t = "true" -> <<"t", "r", "u", "e">>
      [] v.t = "false" -> <<"f", "a", "l", "s", "e">>
      [] v.t = "number" ->
            IF v.n < 0 THEN <<"-">> \o NatToString(0 - v.n) ELSE NatToString(v.n)
      [] v.t = "string" -> Quote(v.s)
      [] v.t = "array" -> <<"[">> \o StringifyItems(v.items) \o <<"]">>
      [] v.t = "object" -> <<"{">> \o StringifyMembers(v.members) \o <<"}">>

\* The keys of the result the prompt asks for (lines 63-83).
KeyContractTerms == <<"c", "o", "n", "t", "r", "a", "c", "t", "T", "e", "r", "m", "s">>

KeyPotentialIssues == <<"p", "o", "t", "e", "n", "t", "i", "a", "l", "I", "s", "s", "u", "e", "s">>

KeyScore == <<"t", "r", "u", "s", "t", "w", "o", "r", "t", "h", "i", "n", "e", "s", "s", "S", "c", "o", "r", "e">>

KeySummary == <<"s", "u", "m", "m", "a", "r", "y">>

\* An object of the requested shape.
AnalysisResult(terms, issues, score, summary) ==
    JObj(<< [k |-> KeyContractTerms, v |-> JArr(terms)],
            [k |-> KeyPotentialIssues, v |-> JArr(issues)],
            [k |-> KeyScore, v |-> JNum(score)],
            [k |-> KeySummary, v |-> JStr(summary)] >>)

\* { "term": "APR", "value": "9", "flag": "high" }
SampleTerm ==
    JObj(<< [k |-> <<"t", "e", "r", "m">>, v |-> JStr(<<"A", "P", "R">>)],
            [k |-> <<"v", "a", "l", "u", "e">>, v |-> JStr(<<"9">>)],
            [k |-> <<"f", "l", "a", "g">>, v |-> JStr(<<"h", "i", "g", "h">>)] >>)

\* { "title": "fee", "description": "x", "severity": "warning" }
SampleIssue ==
    JObj(<< [k |-> <<"t", "i", "t", "l", "e">>, v |-> JStr(<<"f", "e", "e">>)],
            [k |-> <<"d", "e", "s", "c", "r", "i", "p", "t", "i", "o", "n">>, v |-> JStr(<<"x">>)],
            [k |-> <<"s", "e", "v", "e", "r", "i", "t", "y">>,
             v |-> JStr(<<"w", "a", "r", "n", "i", "n", "g">>)] >>)

\* Summaries the model may write: plain, with a quote, with braces, with a
\* code fence.
SampleSummaries ==
    { <<"o", "k">>, <<"a", "\"", "b">>, <<"}", "{">>, <<"s", "e", "e", " ">> \o Fence }

\* Objects of the requested shape the model may answer with.
SampleResults ==
    {AnalysisResult(<<>>, <<>>, 0, sm) : sm \in SampleSummaries}
        \cup {AnalysisResult(<<SampleTerm>>, <<SampleIssue>>, 85, <<"o", "k">>)}

\* JSON values that are not objects.
SampleNonObjects ==
    {JNull, JTrue, JNum(7), JStr(<<"o", "k">>), JArr(<<>>)}

\* Texts that are not JSON: a trailing comma, an unmatched brace, prose, nothing.
MalformedPayloads ==
    { <<"{", "\"", "a", "\"", ":", "1", ",", "}">>,
      <<"{", "\"", "a", "\"", ":", "1">>,
      <<"s", "o", "r", "r", "y">>,
      <<>> }

\* What the model may put where the JSON object is asked for.
Payloads ==
    {Stringify(v) : v \in SampleResults \cup SampleNonObjects} \cup MalformedPayloads

\* The payload as the model may wrap it: bare, in a json code fence (with or
\* without line breaks), or in a plain code fence.
Wrappings(p) ==
    { p,
      FenceOpen \o p \o Fence,
      FenceOpen \o <<"\n">> \o p \o <<"\n">> \o Fence,
      Fence \o <<"\n">> \o p \o <<"\n">> \o Fence }

ProseFrags == {<<"x", " ">>, <<"{">>, <<"}">>, FenceOpen}

\* The prose before and after the payload: at most MaxProseFrags fragments
\* in all.
ProsePairs ==
    {pp \in SeqsUpTo(ProseFrags, MaxProseFrags) \X SeqsUpTo(ProseFrags, MaxProseFrags) :
        Len(pp[1]) + Len(pp[2]) <= MaxProseFrags}

\* The response texts response.text() may yield.
ResponseTexts ==
    {Concat(pp[1]) \o w \o Concat(pp[2]) :
        pp \in ProsePairs, w \in UNION {Wrappings(p) : p \in Payloads}}

(***************************************************************************)
(* The invocation.                                                         *)
(***************************************************************************)
InvocationInit ==
    /\ pc = "idle"
    /\ formData = [file |-> Null]
    /\ requests = <<>>
    /\ response = NoValue
    /\ thrown = NoValue
    /\ completion = Pending

\* Lines 15-18 of the component: the initial values of the state hooks.
ComponentInit ==
    /\ uiFile = Null
    /\ preview = Null
    /\ isAnalyzing = FALSE
    /\ results = Null
    /\ reading = {}
    /\ toast = NoValue
    /\ analyzed = Null

Init ==
    /\ InvocationInit
    /\ ComponentInit

\* Lines 7-26: the caller invokes the action; the file is read from the form
\* and validated.  A failed check is thrown into the catch clause; otherwise
\* the function suspends on file.arrayBuffer().
Begin(entry) ==
    /\ pc = "idle"
    /\ formData' = [file |-> entry]
    /\ LET checked == Validate(entry)
       IN  IF checked.kind = "throw"
           THEN /\ completion' = TryCatch(checked)
                /\ pc' = "done"
           ELSE /\ completion' = Pending
                /\ pc' = "encoding"
    /\ UNCHANGED <<requests, response, thrown>>

\* Lines 26-96: the file's bytes are encoded, the prompt is built and
\* model.generateContent is called with the prompt and the inline part; the
\* function suspends on the call.
SendRequest ==
    /\ pc = "encoding"
    /\ requests' = Append(requests, [mimeType |-> formData.file.type])
    /\ pc' = "awaiting"
    /\ UNCHANGED <<formData, response, thrown, completion>>

\* Lines 96-98 and 111-143: generateContent rejects, or reading the response
\* throws; the thrown value reaches the catch clause.
ModelThrows(e) ==
    /\ pc = "awaiting"
    /\ thrown' = e
    /\ completion' = TryCatch(Throw(e))
    /\ pc' = "done"
    /\ UNCHANGED <<formData, requests, response>>

\* Lines 96-110 and 111-143: the response arrives; its text is extracted and
\* parsed.  The parsed value is returned as a success; a parse failure is
\* rethrown and reaches the catch clause.
ModelReturns(text) ==
    /\ pc = "awaiting"
    /\ response' = [text |-> text]
    /\ completion' = TryCatch(ParseResponse(text))
    /\ pc' = "done"
    /\ UNCHANGED <<formData, requests, thrown>>

\* The steps of an invocation made by a direct caller, the component staying
\* as mounted; the external model answers, with a text or by throwing, only
\* while the function awaits it.
Next ==
    \/ /\ \E entry \in FileEntries : Begin(entry)
       /\ UNCHANGED uiVars
    \/ /\ SendRequest
       /\ UNCHANGED uiVars
    \/ /\ pc = "awaiting"
       /\ \E text \in ResponseTexts : ModelReturns(text)
       /\ UNCHANGED uiVars
    \/ /\ pc = "awaiting"
       /\ \E e \in ThrownValues : ModelThrows(e)
       /\ UNCHANGED uiVars

Spec == Init /\ [][Next]_allVars

(***************************************************************************)
(* The ContractAnalyzer component (src/components/contract-analyzer.tsx).  *)
(* The progress bar and its timers are left out: no handler reads them.    *)
(***************************************************************************)
\* Line 127: the description of the toast when the outcome carries no error.
MsgAnalysisFallback ==
    <<"F", "a", "i", "l", "e", "d", " ", "t", "o", " ", "a", "n", "a", "l", "y", "z", "e", " ", "t", "h", "e", " ", "c", "o", "n", "t", "r", "a", "c", "t", ".", " ", "P", "l", "e", "a", "s", "e", " ", "t", "r", "y", " ", "a", "g", "a", "i", "n", ".">>

\* Line 140: the description of the toast when the call rejects with a value
\* that is not an Error.
MsgCouldNotAnalyze ==
    <<"W", "e", " ", "c", "o", "u", "l", "d", "n", "'", "t", " ", "a", "n", "a", "l", "y", "z", "e", " ", "y", "o", "u", "r", " ", "c", "o", "n", "t", "r", "a", "c", "t", ".", " ", "P", "l", "e", "a", "s", "e", " ", "t", "r", "y", " ", "a", "g", "a", "i", "n", " ", "w", "i", "t", "h", " ", "a", " ", "c", "l", "e", "a", "r", "e", "r", " ", "i", "m", "a", "g", "e", ".">>

\* The files the user may pick or drop: an image, a PDF and a plain text
\* file, each under MaxUiFiles names.
UiFileTypes ==
    { ImagePrefix \o <<"p", "n", "g">>,
      PdfType,
      <<"t", "e", "x", "t", "/", "p", "l", "a", "i", "n">> }

UiFiles == [name : 1..MaxUiFiles, size : {MaxFileSize}, type : UiFileTypes]

\* What the external model may answer to a call made for the component: an
\* analysis result, the JSON literal null, and a text that is not JSON.
UiResponseTexts ==
    { Stringify(AnalysisResult(<<SampleTerm>>, <<SampleIssue>>, 85, <<"o", "k">>)),
      <<"n", "u", "l", "l">>,
      <<"s", "o", "r", "r", "y">> }

UiThrownValues == {NewError(KwRateLimit)}

\* What the awaited call itself may reject with (the request to the server
\* failing).
UiRejections ==
    { NewError(<<"F", "a", "i", "l", "e", "d", " ", "t", "o", " ", "f", "e", "t", "c", "h">>),
      NonError(<<"x">>) }

\* JavaScript truthiness of a parsed JSON value (line 122, response.data).
IsTruthy(v) ==
    CASE v.t = "null" -> FALSE
      [] v.t = "false" -> FALSE
      [] v.t = "number" -> v.n # 0
      [] v.t = "string" -> v.s # <<>>
      [] OTHER -> TRUE

\* The invocation that was awaited is over; the next call starts a new one.
InvocationOver ==
    /\ pc' = "idle"
    /\ formData' = [file |-> Null]
    /\ requests' = <<>>
    /\ response' = NoValue
    /\ thrown' = NoValue
    /\ completion' = Pending

\* Lines 23-46.  The file input is rendered only while no file is selected
\* (lines 171-187).  An image is handed to a FileReader, whose onload runs
\* later; any other file, or no file, clears the preview.
handleFileChange(selectedFile) ==
    /\ uiFile = Null
    /\ uiFile' = selectedFile
    /\ results' = Null
    /\ analyzed' = Null
    /\ IF selectedFile # Null /\ StartsWith(selectedFile.type, ImagePrefix)
       THEN /\ reading' = reading \cup {selectedFile}
            /\ UNCHANGED preview
       ELSE /\ preview' = Null
            /\ UNCHANGED reading
    /\ UNCHANGED <<isAnalyzing, toast>>
    /\ UNCHANGED vars

\* Lines 48-69.  The drop zone is rendered only while no file is selected; a
\* drop that carries no file changes nothing.
handleDrop(droppedFile) ==
    /\ uiFile = Null
    /\ IF droppedFile # Null
       THEN /\ uiFile' = droppedFile
            /\ results' = Null
            /\ analyzed' = Null
            /\ IF StartsWith(droppedFile.type, ImagePrefix)
               THEN /\ reading' = reading \cup {droppedFile}
                    /\ UNCHANGED preview
               ELSE /\ preview' = Null
                    /\ UNCHANGED reading
       ELSE UNCHANGED <<uiFile, results, analyzed, reading, preview>>
    /\ UNCHANGED <<isAnalyzing, toast>>
    /\ UNCHANGED vars

\* Lines 32-34 and 58-60: a reader finishes and its onload sets the preview
\* to the data URL of the file it read.
readerOnload(f) ==
    /\ f \in reading
    /\ preview' = [dataUrlOf |-> f]
    /\ reading' = reading \ {f}
    /\ UNCHANGED <<uiFile, isAnalyzing, results, toast, analyzed>>
    /\ UNCHANGED vars

\* Lines 109-120.  The Analyze button is rendered while a file is selected
\* and is disabled while isAnalyzing (lines 219-221).  The handler clears the
\* results and calls the action with the file, then suspends on the call.
handleAnalyze ==
    /\ uiFile # Null
    /\ ~isAnalyzing
    /\ isAnalyzing' = TRUE
    /\ results' = Null
    /\ analyzed' = Null
    /\ Begin(uiFile)
    /\ UNCHANGED <<uiFile, preview, reading, toast>>

\* Lines 120-130 and 143-146: the awaited call resolves with the outcome of
\* the invocation.  A success with truthy data is stored in results; any
\* other outcome is shown as a toast.  The finally block ends the analysis.
analyzeResolves ==
    /\ isAnalyzing
    /\ pc = "done"
    /\ completion.kind = "return"
    /\ LET outcome == completion.value
       IN  IF outcome.success /\ IsTruthy(outcome.data)
           THEN /\ results' = outcome.data
                /\ analyzed' = formData.file
                /\ UNCHANGED toast
           ELSE /\ toast' =
                    [description |->
                        IF ~outcome.success /\ outcome.error # <<>>
                        THEN outcome.error
                        ELSE MsgAnalysisFallback]
                /\ UNCHANGED <<results, analyzed>>
    /\ isAnalyzing' = FALSE
    /\ InvocationOver
    /\ UNCHANGED <<uiFile, preview, reading>>

\* Lines 131-146: the awaited call rejects; the catch block shows a toast and
\* the finally block ends the analysis.
analyzeRejects(error) ==
    /\ isAnalyzing
    /\ pc # "idle"
    /\ toast' =
        [description |->
            IF error.isError THEN error.message ELSE MsgCouldNotAnalyze]
    /\ isAnalyzing' = FALSE
    /\ InvocationOver
    /\ UNCHANGED <<uiFile, preview, results, reading, analyzed>>

\* Lines 149-153.  The button that calls resetForm is rendered while a file
\* is selected (lines 188-199), also during an analysis.
resetForm ==
    /\ uiFile # Null
    /\ uiFile' = Null
    /\ preview' = Null
    /\ results' = Null
    /\ analyzed' = Null
    /\ UNCHANGED <<isAnalyzing, reading, toast>>
    /\ UNCHANGED vars

\* The events of the component, and the steps of the invocation it awaits.
ComponentNext ==
    \/ \E selectedFile \in UiFiles \cup {Null} : handleFileChange(selectedFile)
    \/ \E droppedFile \in UiFiles \cup {Null} : handleDrop(droppedFile)
    \/ \E f \in reading : readerOnload(f)
    \/ handleAnalyze
    \/ resetForm
    \/ analyzeResolves
    \/ \E error \in UiRejections : analyzeRejects(error)
    \/ /\ SendRequest
       /\ UNCHANGED uiVars
    \/ /\ \E text \in UiResponseTexts : ModelReturns(text)
       /\ UNCHANGED uiVars
    \/ /\ \E e \in UiThrownValues : ModelThrows(e)
       /\ UNCHANGED uiVars

ComponentSpec == Init /\ [][ComponentNext]_allVars

(***************************************************************************)
(* Properties.                                                             *)
(***************************************************************************)
Done == pc = "done"

\* The invocation was started with a file in the form.
HasFile == pc # "idle" /\ formData.file # Null

\* Whether a media type is supported: image/... or exactly application/pdf.
Supported(type) == StartsWith(type, ImagePrefix) \/ type = PdfType

\* The number of generateContent calls so far.
Calls == Len(requests)

\* C1: a file of more than 10 MiB is answered with the size error, and
\* generateContent is never called during that invocation.
C1_OversizeRejected ==
    (HasFile /\ formData.file.size > 10 * 1024 * 1024)
        => /\ Done
           /\ completion = Return(Failure(MsgTooLarge))
           /\ Calls = 0

C1_Witness ==
    /\ Done
    /\ HasFile
    /\ formData.file.size > 10 * 1024 * 1024
    /\ Supported(formData.file.type)
    /\ completion = Return(Failure(MsgTooLarge))

\* C2 as stated: every file of an unsupported media type is answered with
\* the type error, and generateContent is not called.
C2_Original ==
    (HasFile /\ ~Supported(formData.file.type))
        => /\ Done
           /\ completion = Return(Failure(MsgBadType))
           /\ Calls = 0

\* C2, amended: a file of at most 10 MiB and of an unsupported media type is
\* answered with the type error, and generateContent is not called.
C2_UnsupportedRejected ==
    (HasFile /\ formData.file.size <= 10 * 1024 * 1024 /\ ~Supported(formData.file.type))
        => /\ Done
           /\ completion = Return(Failure(MsgBadType))
           /\ Calls = 0

C2_Witness ==
    /\ Done
    /\ HasFile
    /\ formData.file.size = 10 * 1024 * 1024
    /\ formData.file.type = PdfType \o <<"x">>
    /\ completion = Return(Failure(MsgBadType))

\* C3: the checks run in the order presence, size, type, and the first one
\* violated alone decides the error: no file gives "No file provided"; a
\* file over 10 MiB gives the size error whatever its type; only a file
\* within the limit can give the type error.
C3_ValidationOrder ==
    pc # "idle" =>
        /\ formData.file = Null => completion = Return(Failure(MsgNoFile))
        /\ (HasFile /\ formData.file.size > 10 * 1024 * 1024)
              => completion = Return(Failure(MsgTooLarge))
        /\ (Done /\ completion = Return(Failure(MsgBadType)))
              => /\ HasFile
                 /\ formData.file.size <= 10 * 1024 * 1024
                 /\ ~Supported(formData.file.type)

C3_Witness ==
    /\ Done
    /\ HasFile
    /\ formData.file.size > 10 * 1024 * 1024
    /\ ~Supported(formData.file.type)
    /\ completion = Return(Failure(MsgTooLarge))

\* C4: an invocation never ends by throwing; before it ends it can always
\* take a step, and it ends by returning either { success: true, data } or
\* { success: false, error: <string> }.
C4_AlwaysReturnsOutcome ==
    /\ completion.kind # "throw"
    /\ ~Done => (completion = Pending /\ ENABLED Next)
    /\ Done =>
          /\ completion.kind = "return"
          /\ \/ /\ DOMAIN completion.value = {"success", "data"}
                /\ completion.value.success = TRUE
             \/ /\ DOMAIN completion.value = {"success", "error"}
                /\ completion.value.success = FALSE
                /\ completion.value.error \in Seq(STRING)

C4_Witness ==
    /\ Done
    /\ thrown # NoValue
    /\ ~thrown.isError
    /\ completion = Return(Failure(MsgUnknown))

\* The external call failed with an Error whose message contains sub.
ThrewErrorWith(sub) ==
    /\ thrown # NoValue
    /\ thrown.isError
    /\ Includes(thrown.message, sub)

\* C5 as stated: an external Error whose message contains "rate limit" is
\* answered with the throttling message, whatever else the message holds.
C5_Original ==
    (Done /\ ThrewErrorWith(KwRateLimit))
        => completion = Return(Failure(MsgThrottled))

\* C5, amended: an external Error whose message contains "rate limit" and
\* does not contain "deprecated" is answered with the throttling message,
\* whatever else the message holds.
C5_RateLimitThrottled ==
    (Done /\ ThrewErrorWith(KwRateLimit) /\ ~ThrewErrorWith(KwDeprecated))
        => completion = Return(Failure(MsgThrottled))

C5_Witness ==
    /\ Done
    /\ ThrewErrorWith(KwRateLimit)
    /\ ThrewErrorWith(KwParse)
    /\ ~ThrewErrorWith(KwDeprecated)
    /\ completion = Return(Failure(MsgThrottled))

\* C6: the classification is first match wins: "deprecated", else "rate
\* limit", else "parse", else the Error's own message; a thrown value that
\* is not an Error gives the unknown-failure message; the three validation
\* messages reach the caller unchanged.
C6_ClassificationPriority ==
    Done =>
        /\ thrown # NoValue =>
              /\ ~thrown.isError => completion = Return(Failure(MsgUnknown))
              /\ ThrewErrorWith(KwDeprecated) => completion = Return(Failure(MsgUpdating))
              /\ (ThrewErrorWith(KwRateLimit) /\ ~ThrewErrorWith(KwDeprecated))
                    => completion = Return(Failure(MsgThrottled))
              /\ (ThrewErrorWith(KwParse) /\ ~ThrewErrorWith(KwRateLimit)
                        /\ ~ThrewErrorWith(KwDeprecated))
                    => completion = Return(Failure(MsgUnable))
              /\ (thrown.isError /\ ~ThrewErrorWith(KwParse) /\ ~ThrewErrorWith(KwRateLimit)
                        /\ ~ThrewErrorWith(KwDeprecated))
                    => completion = Return(Failure(thrown.message))
        /\ Calls = 0 =>
              completion \in {Return(Failure(MsgNoFile)), Return(Failure(MsgTooLarge)),
                              Return(Failure(MsgBadType))}

C6_Witness ==
    /\ Done
    /\ ThrewErrorWith(KwDeprecated)
    /\ ThrewErrorWith(KwRateLimit)
    /\ ThrewErrorWith(KwParse)
    /\ completion = Return(Failure(MsgUpdating))

\* The response arrived and its extracted candidate string is not valid JSON.
CandidateInvalid ==
    /\ response # NoValue
    /\ ~JsonParse(JsonString(response.text)).ok

\* C7: when the candidate string extracted from the response is not valid
\* JSON, the caller gets the unable-to-analyze message, not the parser's
\* message and not "Failed to parse the AI response".
C7_ParseFailureMessage ==
    (Done /\ CandidateInvalid)
        => completion = Return(Failure(MsgUnable))

C7_Witness ==
    /\ Done
    /\ CandidateInvalid
    /\ Includes(response.text, <<",", "}">>)
    /\ completion = Return(Failure(MsgUnable))

\* The member of object v with key k, as a set (empty when absent).
Member(v, k) == {v.members[x].v : x \in {y \in DOMAIN v.members : v.members[y].k = k}}

\* Object v has a string under key k.
HasString(v, k) == \E m \in Member(v, k) : m.t = "string"

\* Object v has under key k a string among the texts allowed.
HasEnum(v, k, allowed) == \E m \in Member(v, k) : m.t = "string" /\ m.s \in allowed

\* Object v has nothing, or a string, under key k.
OptionalString(v, k) == \A m \in Member(v, k) : m.t = "string"

FlagValues ==
    { <<"n", "o", "r", "m", "a", "l">>, <<"w", "a", "r", "n", "i", "n", "g">>,
      <<"h", "i", "g", "h">>, <<"g", "o", "o", "d">> }

SeverityValues ==
    { <<"h", "i", "g", "h">>, <<"w", "a", "r", "n", "i", "n", "g">>, <<"g", "o", "o", "d">> }

IsContractTerm(v) ==
    /\ v.t = "object"
    /\ HasString(v, <<"t", "e", "r", "m">>)
    /\ HasString(v, <<"v", "a", "l", "u", "e">>)
    /\ HasEnum(v, <<"f", "l", "a", "g">>, FlagValues)
    /\ OptionalString(v, <<"d", "e", "t", "a", "i", "l", "s">>)

IsPotentialIssue(v) ==
    /\ v.t = "object"
    /\ HasString(v, <<"t", "i", "t", "l", "e">>)
    /\ HasString(v, <<"d", "e", "s", "c", "r", "i", "p", "t", "i", "o", "n">>)
    /\ HasEnum(v, <<"s", "e", "v", "e", "r", "i", "t", "y">>, SeverityValues)
    /\ OptionalString(v, <<"r", "e", "c", "o", "m", "m", "e", "n", "d", "a", "t", "i", "o", "n">>)

\* The AnalysisResults shape.
IsAnalysisResult(v) ==
    /\ v.t = "object"
    /\ \E m \in Member(v, KeyContractTerms) :
          m.t = "array" /\ \A x \in DOMAIN m.items : IsContractTerm(m.items[x])
    /\ \E m \in Member(v, KeyPotentialIssues) :
          m.t = "array" /\ \A x \in DOMAIN m.items : IsPotentialIssue(m.items[x])
    /\ \E m \in Member(v, KeyScore) : m.t = "number" /\ m.n \in 0..100
    /\ HasString(v, KeySummary)

\* The json-fenced blocks of the response: an opening marker at i, a closing
\* marker at j, and between them the JSON text of an AnalysisResult.
FencedResults ==
    {b \in {[i |-> i, j |-> j] :
               i \in Occurrences(response.text, FenceOpen, 1),
               j \in Occurrences(response.text, Fence, 1)} :
        /\ b.j >= b.i + Len(FenceOpen)
        /\ LET inner == JsonParse(SubSeq(response.text, b.i + Len(FenceOpen), b.j - 1))
           IN  inner.ok /\ IsAnalysisResult(inner.v)}

\* C8: whenever the response holds a json-fenced block whose content is the
\* JSON text of a valid AnalysisResult, whatever surrounds it, the caller
\* gets success with an object equal to it.
C8_FencedResultReturned ==
    (Done /\ response # NoValue) =>
        \A b \in FencedResults :
            completion = Return(Success(
                JsonParse(SubSeq(response.text, b.i + Len(FenceOpen), b.j - 1)).v))

\* The positions of the braces of the response.
BracePositions == Occurrences(response.text, <<"{">>, 1) \cup Occurrences(response.text, <<"}">>, 1)

\* The response holds no code fence and is prose, free of braces, around one
\* JSON object: its text from the first brace to the last is an object.
ProseAroundObject ==
    /\ response # NoValue
    /\ ~Includes(response.text, Fence)
    /\ BracePositions # {}
    /\ LET span == JsonParse(SubSeq(response.text, Min(BracePositions), Max(BracePositions)))
       IN  span.ok /\ span.v.t = "object"

\* C9: for a response with no code fence that is prose around a single JSON
\* object, the candidate string is exactly the object's text, from the first
\* "{" to the last "}", and the caller gets success with the object.
C9_ProseWrappedObject ==
    (Done /\ ProseAroundObject) =>
        LET span == SubSeq(response.text, Min(BracePositions), Max(BracePositions))
        IN  /\ JsonString(response.text) = span
            /\ completion = Return(Success(JsonParse(span).v))

C9_Witness ==
    /\ Done
    /\ ProseAroundObject
    /\ Min(BracePositions) > 1
    /\ Max(BracePositions) < Len(response.text)
    /\ Cardinality(BracePositions) > 2
    /\ completion.value.success

\* C10: generateContent is called at most once in an invocation, and by the
\* end exactly once if and only if a file is present, of at most 10 MiB (10
\* MiB itself included) and of a supported type.
C10_CalledOnceIffValid ==
    /\ Calls <= 1
    /\ Done =>
          (Calls = 1 <=>
              /\ HasFile
              /\ formData.file.size <= 10 * 1024 * 1024
              /\ Supported(formData.file.type))

C10_Witness ==
    /\ Done
    /\ HasFile
    /\ formData.file.size = 10 * 1024 * 1024
    /\ thrown # NoValue
    /\ Calls = 1

\* C11: a success always carries a JSON object parsed from the candidate
\* string, never null, an array, a number, a string or a boolean.
C11_SuccessIsObject ==
    (Done /\ completion.value.success)
        => completion.value.data.t = "object"

\* C12 as stated: the unable-to-analyze message is returned only when the
\* response text could not be parsed as JSON: never for a validation
\* failure, and never for a failure of the external call, whatever its
\* message.
C12_Original ==
    (Done /\ completion = Return(Failure(MsgUnable)))
        => CandidateInvalid

\* C12, amended: the unable-to-analyze message is returned only when the
\* response text could not be parsed as JSON, or when the external call
\* failed with an Error whose message contains "parse" and neither
\* "deprecated" nor "rate limit", or is that very message; never for a
\* validation failure.
C12_ParseMessageOrigin ==
    (Done /\ completion = Return(Failure(MsgUnable)))
        => /\ Calls = 1
           /\ \/ CandidateInvalid
              \/ /\ ThrewErrorWith(KwParse)
                 /\ ~ThrewErrorWith(KwRateLimit)
                 /\ ~ThrewErrorWith(KwDeprecated)
              \/ /\ thrown # NoValue
                 /\ thrown = NewError(MsgUnable)

C12_Witness ==
    /\ Done
    /\ ThrewErrorWith(KwParse)
    /\ ~ThrewErrorWith(KwRateLimit)
    /\ ~ThrewErrorWith(KwDeprecated)
    /\ completion = Return(Failure(MsgUnable))

\* C13: under any interleaving of file selection or drop, resetForm,
\* handleAnalyze and the completion of the awaited call, a results value that
\* is not null belongs to the currently selected file: a file is selected and
\* the results are the analysis of that file.
C13_ResultsOfSelectedFile ==
    results # Null => (uiFile # Null /\ analyzed = uiFile)

====
